---- MODULE Spec2Model ----
(***************************************************************************)
(* A model of package sentrywriter: the SentryWriter io.Writer that        *)
(* filters json logs by level and forwards the matching ones to a Sentry   *)
(* client, keeping the discarded ones as breadcrumbs.                      *)
(*                                                                         *)
(* A log is a sequence of tokens, one token standing for a lexical unit    *)
(* of the byte slice: len(log) is the length of the sequence and           *)
(* string(log) is the sequence itself.  The separators ':' and ',' are     *)
(* folded into the key token and the member boundary.                      *)
(***************************************************************************)
EXTENDS Integers, Sequences, FiniteSets, TLC

\* ------------------------------------------------------------------ bounds

\* longest rule list (New's arguments plus WithLogLevel calls)
MaxRules == 2
\* the Writes looked at when two goroutines write at once
MaxWrites == 3
\* ------------------------------------------------------------ value spaces

NoClient == "nil"
Clients == {"c1", "c2"}
\* the client sentry.NewClient builds in SetDSN / SetClientOptions
SdkClient == "c2"

UserIDs == {"", "u1"}
FieldNames == {"level", "lvl"}
Timeouts == {1, 2}
\* the limits handed to WithBreadcrumbs: a breadcrumb capacity is an integer >= 0
Limits == {0, 1}

\* sentry.Level is a string type; the zero value is the unset level
NoLevel == ""
LevelError == "error"
LevelFatal == "fatal"
LevelWarning == "warning"

LogLevel(m, l) == [MatchingString |-> m, SentryLevel |-> l]
NoLogLevel == LogLevel("", NoLevel)
LogLevels == {LogLevel("error", LevelError), LogLevel("error", LevelFatal),
              LogLevel("warn", LevelWarning)}

SeqsUpTo(S, n) == UNION {[1..k -> S] : k \in 0..n}

\* ------------------------------------------------------------------ tokens

Tok(t, s) == [t |-> t, s |-> s]
LBrace == Tok("{", "")
RBrace == Tok("}", "")
Key(k) == Tok("key", k)
Str(v) == Tok("string", v)
Lit(kind) == Tok(kind, "")
Junk == Tok("junk", "")

\* json values that are one token long
ScalarKinds == {"string", "number", "bool", "null", "array"}

StringValues == {"error", "info"}
Values == {<<Str(v)>> : v \in StringValues}
          \cup {<<Lit(k)>> : k \in {"number", "bool", "null", "array"}}
          \cup {<<LBrace, RBrace>>}
Members == {<<Key(k)>> \o v : k \in FieldNames, v \in Values}

RECURSIVE Concat(_)
Concat(ss) == IF ss = <<>> THEN <<>> ELSE Head(ss) \o Concat(Tail(ss))

\* the member lists of the object logs: none, every single member, and
\* pairs in which a key repeats or both field names occur
MemberLists ==
    {<<>>} \cup {<<m>> : m \in Members}
    \cup {<<<<Key("level"), Str("info")>>, <<Key("level"), Str("error")>>>>,
          <<<<Key("level"), Str("error")>>, <<Key("level"), Lit("number")>>>>,
          <<<<Key("level"), Lit("null")>>, <<Key("lvl"), Str("error")>>>>,
          <<<<Key("lvl"), Str("info")>>, <<Key("level"), Str("error")>>>>,
          <<<<Key("level"), Str("info")>>, <<Key("lvl"), LBrace, Key("level"), Str("error"), RBrace>>>>}
\* well-formed json objects
ObjectLogs == {<<LBrace>> \o Concat(ms) \o <<RBrace>> : ms \in MemberLists}
\* inputs that are not a json object: plain text, other json values,
\* truncated or garbled objects
OtherLogs == {<<>>, <<Junk>>, <<Junk, Junk>>, <<Lit("null")>>, <<Lit("number")>>,
              <<Str("error")>>, <<Lit("array")>>, <<LBrace>>,
              <<LBrace, Key("level"), Str("error")>>,
              <<LBrace, Key("level"), RBrace>>,
              <<LBrace, Str("error"), RBrace>>,
              <<LBrace, RBrace, Junk>>,
              <<Key("level"), Str("error")>>}
Logs == ObjectLogs \cup OtherLogs

\* ----------------------------------------------------------- encoding/json

RECURSIVE ValueEnd(_, _)
RECURSIVE MembersEnd(_, _)
\* the index just after the json value that starts at log[i]; 0 when no
\* value starts there
ValueEnd(log, i) ==
    IF i > Len(log) THEN 0
    ELSE IF log[i].t \in ScalarKinds THEN i + 1
    ELSE IF log[i] = LBrace THEN MembersEnd(log, i + 1)
    ELSE 0
\* the index just after the '}' closing the object whose members start at
\* log[i]; 0 on a syntax error
MembersEnd(log, i) ==
    IF i > Len(log) THEN 0
    ELSE IF log[i] = RBrace THEN i + 1
    ELSE IF log[i].t = "key"
         THEN LET e == ValueEnd(log, i + 1)
              IN IF e = 0 THEN 0 ELSE MembersEnd(log, e)
    ELSE 0

\* json.Valid: exactly one value, nothing after it
ValidJSON(log) == ValueEnd(log, 1) = Len(log) + 1

EmptyMap == [k \in {} |-> <<>>]
MapPut(m, k, v) == [x \in DOMAIN m \cup {k} |-> IF x = k THEN v ELSE m[x]]

RECURSIVE ReadMembers(_, _, _)
\* the members of a valid object from log[i] on, as a map from key to the
\* raw tokens of its value; a repeated key keeps its last value
ReadMembers(log, i, m) ==
    IF log[i] = RBrace THEN m
    ELSE LET e == ValueEnd(log, i + 1)
         IN ReadMembers(log, e, MapPut(m, log[i].s, SubSeq(log, i + 1, e - 1)))

\* json.Unmarshal(log, &m) for m a nil map[string]json.RawMessage (and, with
\* the values kept as data, a map[string]interface{}): a syntax error for
\* invalid json, success leaving m nil for the literal null, a type error
\* for any other value that is not an object
UnmarshalMap(log) ==
    IF ~ValidJSON(log) THEN [ok |-> FALSE, m |-> EmptyMap]
    ELSE IF log = <<Lit("null")>> THEN [ok |-> TRUE, m |-> EmptyMap]
    ELSE IF log[1] = LBrace THEN [ok |-> TRUE, m |-> ReadMembers(log, 2, EmptyMap)]
    ELSE [ok |-> FALSE, m |-> EmptyMap]

\* eventMap[name]: the zero value (a nil RawMessage) for a missing key
MapGet(m, name) == IF name \in DOMAIN m THEN m[name] ELSE <<>>

\* json.Unmarshal(raw, &level) for level a string holding "": an error for
\* empty input, the decoded text for a json string, no error and level left
\* as it was for the literal null, a type error for anything else
UnmarshalString(raw) ==
    IF raw = <<>> THEN [ok |-> FALSE, s |-> ""]
    ELSE IF Len(raw) = 1 /\ raw[1].t = "string" THEN [ok |-> TRUE, s |-> raw[1].s]
    ELSE IF raw = <<Lit("null")>> THEN [ok |-> TRUE, s |-> ""]
    ELSE [ok |-> FALSE, s |-> ""]

\* ------------------------------------------------------------------- state

VARIABLES
    client,              \* s.client: NoClient or the client in use
    scope,               \* *s.scope: the shared sentry.Scope
    logLevels,           \* s.logLevels
    filterLogsFlag,      \* s.filterLogsFlag
    addBreadcrumbsFlag,  \* s.addBreadcrumbsFlag
    breadcrumbsLimit,    \* s.breadcrumbsLimit
    levelFieldName,      \* s.levelFieldName
    ret,                 \* the last call: its arguments, what it returned and
                         \* the calls it made on the client and the scope
    mu,                  \* s.mu: NoHolder or the goroutine holding it locked
    calls,               \* per goroutine: the call it is in, where, its locals
    access,              \* the accesses to fields of the writer the last step
                         \* made, and how the goroutine held s.mu for them
    clock,               \* what time.Now() returns: a logical clock
    hist                 \* what the callers and the client have seen so far:
                         \* Writes begun, what the client was given, the logs
                         \* of the Writes that returned after sending, the
                         \* breadcrumbs given to the scope, the time the last
                         \* forward was complete

vars == <<client, scope, logLevels, filterLogsFlag, addBreadcrumbsFlag,
          breadcrumbsLimit, levelFieldName, ret, mu, calls, access, clock, hist>>
\* what only a call that runs step by step, next to another, changes
conc == <<mu, calls, access, clock, hist>>
config == <<client, logLevels, filterLogsFlag, addBreadcrumbsFlag,
            breadcrumbsLimit, levelFieldName>>

NoError == "nil"
ErrNoClient == "no Sentry client supplied"
ErrUnmarshalLog == "json.Unmarshal log"
ErrUnmarshalLevel == "json.Unmarshal eventMap[levelFieldName]"
ErrNewClient == "sentry.NewClient"

\* a call record with nothing in it; every action fills in its own part
Call(op) == [op |-> op, arg |-> <<>>, log |-> <<>>, n |-> 0, err |-> NoError,
             captured |-> <<>>, unmarshals |-> 0, lookups |-> 0, added |-> 0,
             flushed |-> <<>>, result |-> FALSE, panicked |-> FALSE]

\* ------------------------------------------------------------ sentry.Scope

\* sentry.NewScope()
NewScope == [user |-> "", breadcrumbs |-> <<>>, level |-> NoLevel]

\* the goroutines: one configures the writer, one logs through it
Setters == {"g1"}
Loggers == {"g2"}
Procs == Setters \cup Loggers
\* s.mu is unlocked
NoHolder == ""
\* a goroutine that is in no call
NoCall == [op |-> "", pc |-> "idle", arg |-> <<>>, log |-> <<>>, sc |-> NewScope,
           level |-> "", limit |-> 0, Timestamp |-> 0, captured |-> <<>>]
\* a step that touches no field of the writer
NoAccess == [g |-> "", fields |-> {}, kind |-> "", held |-> ""]
\* no forward has been completed yet
Never == -1
\* nothing written, nothing sent
NoHist == [begun |-> 0, sent |-> <<>>, forwarded |-> <<>>, added |-> {}, cleared |-> Never]
\* mutant: the copy starts with no user
CloneWithoutUser(sc) == [user |-> "", breadcrumbs |-> sc.breadcrumbs, level |-> sc.level]
\* scope.Clone(): a copy that shares nothing with the original
Clone(sc) == [user |-> sc.user, breadcrumbs |-> sc.breadcrumbs, level |-> sc.level]
\* scope.SetUser(sentry.User{ID: id})
SetUser(sc, id) == [sc EXCEPT !.user = id]
\* mutant: the level is never set on the scope
SetLevelDropped(sc, level) == sc
\* scope.SetLevel(level)
SetLevel(sc, level) == [sc EXCEPT !.level = level]
\* mutant: the breadcrumbs are left in place
ClearBreadcrumbsKept(sc) == sc
\* scope.ClearBreadcrumbs()
ClearBreadcrumbs(sc) == [sc EXCEPT !.breadcrumbs = <<>>]
\* scope.AddBreadcrumb(breadcrumb, limit): append, then keep
\* breadcrumbs[1 : limit+1] when the list is longer than limit
AddBreadcrumb(sc, breadcrumb, limit) ==
    LET breadcrumbs == Append(sc.breadcrumbs, breadcrumb)
    IN [sc EXCEPT !.breadcrumbs = IF Len(breadcrumbs) > limit
                                  THEN SubSeq(breadcrumbs, 2, limit + 1)
                                  ELSE breadcrumbs]

\* ------------------------------------------------------------ SentryWriter

\* mutant: filtering is on whatever the flag says
shouldFilterLogsAlways == TRUE
shouldFilterLogs == filterLogsFlag
shouldAddBreadcrumb == addBreadcrumbsFlag
getBreadcrumbsLimit == breadcrumbsLimit
\* mutant: the field name is never anything but the default
getLevelFieldNameDefault == "level"
getLevelFieldName == levelFieldName
getScope == Clone(scope)

RECURSIVE findFromNeq(_, _, _)
\* mutant: the comparison is inverted
findFromNeq(levels, level, i) ==
    IF i > Len(levels) THEN [logLevel |-> NoLogLevel, found |-> FALSE]
    ELSE IF levels[i].MatchingString # level THEN [logLevel |-> levels[i], found |-> TRUE]
    ELSE findFromNeq(levels, level, i + 1)
RECURSIVE findFromLast(_, _, _)
\* mutant: a later match replaces an earlier one
findFromLast(levels, level, i) ==
    IF i > Len(levels) THEN [logLevel |-> NoLogLevel, found |-> FALSE]
    ELSE LET later == findFromLast(levels, level, i + 1)
         IN IF later.found THEN later
            ELSE IF levels[i].MatchingString = level
                 THEN [logLevel |-> levels[i], found |-> TRUE]
                 ELSE later
RECURSIVE findFrom(_, _, _)
\* the loop of findMatchingLogLevel from index i on
findFrom(levels, level, i) ==
    IF i > Len(levels) THEN [logLevel |-> NoLogLevel, found |-> FALSE]
    ELSE IF levels[i].MatchingString = level THEN [logLevel |-> levels[i], found |-> TRUE]
    ELSE findFrom(levels, level, i + 1)
findMatchingLogLevel(level) == findFrom(logLevels, level, 1)

\* the sentry.Breadcrumb addBreadcrumb builds from a log at time now: Data
\* when the log decodes, else Message
BreadcrumbAt(log, now) ==
    LET dataMap == UnmarshalMap(log)
    IN IF ~dataMap.ok THEN [Timestamp |-> now, Message |-> log, Data |-> EmptyMap]
       ELSE [Timestamp |-> now, Message |-> <<>>, Data |-> dataMap.m]
\* the breadcrumb of a log, built now
Breadcrumb(log) == BreadcrumbAt(log, clock)

\* mutant: the scope is given one more than the limit
addBreadcrumbToScopeOffByOne(sc, breadcrumb) ==
    AddBreadcrumb(sc, breadcrumb, getBreadcrumbsLimit + 1)
\* addBreadcrumbToScope: the limit is read anew for every breadcrumb
addBreadcrumbToScope(sc, breadcrumb) == AddBreadcrumb(sc, breadcrumb, getBreadcrumbsLimit)

\* the shared scope after addBreadcrumb(log)
addBreadcrumb(log) ==
    IF ~shouldAddBreadcrumb THEN scope
    ELSE addBreadcrumbToScope(scope, Breadcrumb(log))
\* the number of scope.AddBreadcrumb calls addBreadcrumb(log) makes
addBreadcrumbCalls == IF ~shouldAddBreadcrumb THEN 0 ELSE 1

\* mutant: a log that fails is still kept as a breadcrumb
WriteErrorAddsBreadcrumb(log, err, unmarshals) ==
    [ret |-> [Call("Write") EXCEPT !.log = log, !.n = 0, !.err = err,
                                   !.unmarshals = unmarshals, !.added = addBreadcrumbCalls],
     scope |-> addBreadcrumb(log)]
\* the outcome of Write that returns an error
WriteError(log, err, unmarshals) ==
    [ret |-> [Call("Write") EXCEPT !.log = log, !.n = 0, !.err = err,
                                   !.unmarshals = unmarshals],
     scope |-> scope]
\* the outcome of Write from s.client.CaptureMessage(string(log), nil, sc) on
WriteCapture(log, sc, unmarshals, lookups) ==
    [ret |-> [Call("Write") EXCEPT !.log = log, !.n = Len(log),
                  !.captured = <<[client |-> client, message |-> log, scope |-> sc]>>,
                  !.unmarshals = unmarshals, !.lookups = lookups],
     scope |-> ClearBreadcrumbs(scope)]
\* mutant: a discarded log counts as nothing written
WriteDiscardZero(log) ==
    [ret |-> [Call("Write") EXCEPT !.log = log, !.n = 0, !.unmarshals = 2,
                  !.lookups = 1, !.added = addBreadcrumbCalls],
     scope |-> addBreadcrumb(log)]
\* the outcome of Write for a log no LogLevel matches
WriteDiscard(log) ==
    [ret |-> [Call("Write") EXCEPT !.log = log, !.n = Len(log), !.unmarshals = 2,
                  !.lookups = 1, !.added = addBreadcrumbCalls],
     scope |-> addBreadcrumb(log)]

\* mutant: the client is looked at only when a message is about to be sent
WriteOutcomeLateClientCheck(log) ==
    LET sc == getScope
        send(tagged, unmarshals, lookups) ==
            IF client = NoClient THEN WriteError(log, ErrNoClient, unmarshals)
            ELSE WriteCapture(log, tagged, unmarshals, lookups)
    IN IF shouldFilterLogs
       THEN LET eventMap == UnmarshalMap(log)
            IN IF ~eventMap.ok THEN WriteError(log, ErrUnmarshalLog, 1)
               ELSE
               LET level == UnmarshalString(MapGet(eventMap.m, getLevelFieldName))
               IN IF ~level.ok THEN WriteError(log, ErrUnmarshalLevel, 2)
                  ELSE
                  LET match == findMatchingLogLevel(level.s)
                  IN IF ~match.found THEN WriteDiscard(log)
                     ELSE send(SetLevel(sc, match.logLevel.SentryLevel), 2, 1)
       ELSE send(sc, 0, 0)

\* Write(log): the call record and the shared scope it leaves
WriteOutcome(log) ==
    IF client = NoClient THEN WriteError(log, ErrNoClient, 0)
    ELSE
    LET sc == getScope
    IN IF shouldFilterLogs
       THEN LET eventMap == UnmarshalMap(log)
            IN IF ~eventMap.ok THEN WriteError(log, ErrUnmarshalLog, 1)
               ELSE
               LET level == UnmarshalString(MapGet(eventMap.m, getLevelFieldName))
               IN IF ~level.ok THEN WriteError(log, ErrUnmarshalLevel, 2)
                  ELSE
                  LET match == findMatchingLogLevel(level.s)
                  IN IF ~match.found THEN WriteDiscard(log)
                     ELSE WriteCapture(log, SetLevel(sc, match.logLevel.SentryLevel), 2, 1)
       ELSE WriteCapture(log, sc, 0, 0)

\* a Write of one of the given logs
WriteOf(logs) ==
    \E log \in logs :
        LET out == WriteOutcome(log)
        IN /\ ret' = out.ret
           /\ scope' = out.scope
           /\ UNCHANGED <<config, conc>>

Write == WriteOf(Logs)

\* mutant: New leaves the flag off
newFilterLogsFlagOff(given) == FALSE
\* New: the filter flag is turned on when log levels are given
newFilterLogsFlag(given) == Len(given) > 0

\* New(logLevels...)
Init ==
    \E given \in SeqsUpTo(LogLevels, MaxRules) :
        /\ client = NoClient
        /\ scope = NewScope
        /\ logLevels = given
        /\ filterLogsFlag = newFilterLogsFlag(given)
        /\ addBreadcrumbsFlag = FALSE
        /\ breadcrumbsLimit = 0
        /\ levelFieldName = "level"
        /\ ret = [Call("New") EXCEPT !.arg = given]
        /\ mu = NoHolder
        /\ calls = [g \in Procs |-> NoCall]
        /\ access = NoAccess
        /\ clock = 0
        /\ hist = NoHist

\* mutant: a client that is already set is kept
setClientOnce(c) ==
    /\ client' = IF client = NoClient THEN c ELSE client
    /\ UNCHANGED <<scope, logLevels, filterLogsFlag, addBreadcrumbsFlag,
                   breadcrumbsLimit, levelFieldName>>
\* what WithClient(c) does to the writer
setClient(c) ==
    /\ client' = c
    /\ UNCHANGED <<scope, logLevels, filterLogsFlag, addBreadcrumbsFlag,
                   breadcrumbsLimit, levelFieldName>>

WithClient ==
    \E c \in Clients \cup {NoClient} :
        /\ setClient(c)
        /\ ret' = [Call("WithClient") EXCEPT !.arg = <<c>>]
        /\ UNCHANGED conc

\* SetDSN(DSN): sentry.NewClient fails or gives the client that is then set
SetDSN ==
    \E ok \in BOOLEAN :
        /\ IF ok THEN setClient(SdkClient) ELSE UNCHANGED <<config, scope>>
        /\ ret' = [Call("SetDSN") EXCEPT !.err = IF ok THEN NoError ELSE ErrNewClient]
        /\ UNCHANGED conc

SetClientOptions ==
    \E ok \in BOOLEAN :
        /\ IF ok THEN setClient(SdkClient) ELSE UNCHANGED <<config, scope>>
        /\ ret' = [Call("SetClientOptions") EXCEPT !.err = IF ok THEN NoError ELSE ErrNewClient]
        /\ UNCHANGED conc

\* mutant: the result of append is dropped
addLogLevelDropped(levels, logLevel) == levels
\* addLogLevel(logLevel)
addLogLevel(levels, logLevel) == Append(levels, logLevel)
\* turnOnFilterLogsFlag, reached only when shouldFilterLogs is false
turnOnFilterLogsFlag(flag) == TRUE

WithLogLevel ==
    \E logLevel \in LogLevels :
        /\ Len(logLevels) < MaxRules
        /\ logLevels' = addLogLevel(logLevels, logLevel)
        /\ filterLogsFlag' = IF ~shouldFilterLogs THEN turnOnFilterLogsFlag(filterLogsFlag)
                             ELSE filterLogsFlag
        /\ ret' = [Call("WithLogLevel") EXCEPT !.arg = <<logLevel>>]
        /\ UNCHANGED <<client, scope, addBreadcrumbsFlag, breadcrumbsLimit, levelFieldName>>
        /\ UNCHANGED conc

WithLevelFieldName ==
    \E name \in FieldNames :
        /\ levelFieldName' = name
        /\ ret' = [Call("WithLevelFieldName") EXCEPT !.arg = <<name>>]
        /\ UNCHANGED <<client, scope, logLevels, filterLogsFlag, addBreadcrumbsFlag,
                       breadcrumbsLimit>>
        /\ UNCHANGED conc

WithUserID ==
    \E userID \in UserIDs :
        /\ scope' = SetUser(scope, userID)
        /\ ret' = [Call("WithUserID") EXCEPT !.arg = <<userID>>]
        /\ UNCHANGED <<config, conc>>

\* WithBreadcrumbs(limit), for the limits the breadcrumb capacity may take
\* (an integer >= 0)
WithBreadcrumbsOf(limits) ==
    \E limit \in limits :
        /\ addBreadcrumbsFlag' = TRUE
        /\ breadcrumbsLimit' = limit
        /\ ret' = [Call("WithBreadcrumbs") EXCEPT !.arg = <<limit>>]
        /\ UNCHANGED <<client, scope, logLevels, filterLogsFlag, levelFieldName>>
        /\ UNCHANGED conc

WithBreadcrumbs == WithBreadcrumbsOf(Limits)

\* mutant: Flush reports success whatever the client said
flushResultTrue(returned) == TRUE
\* what Flush returns, given what s.client.Flush returned
flushResult(returned) == returned

\* Flush(timeout): s.client.Flush(timeout); a nil client is a nil
\* dereference, which panics.  returned is the client's answer.
Flush ==
    \E timeout \in Timeouts, returned \in BOOLEAN :
        /\ ret' = IF client = NoClient
                  THEN [Call("Flush") EXCEPT !.arg = <<timeout>>, !.panicked = TRUE]
                  ELSE [Call("Flush") EXCEPT !.arg = <<timeout>>,
                            !.result = flushResult(returned),
                            !.flushed = <<[client |-> client, timeout |-> timeout,
                                           returned |-> returned]>>]
        /\ UNCHANGED <<config, scope, conc>>

Next ==
    \/ Write
    \/ WithClient
    \/ SetDSN
    \/ SetClientOptions
    \/ WithLogLevel
    \/ WithLevelFieldName
    \/ WithUserID
    \/ WithBreadcrumbs
    \/ Flush

Spec == Init /\ [][Next]_vars

\* ------------------------------------------- the breadcrumb history at large

\* limits wide enough for a history of two and for a limit that is lowered
\* below the length of the history it finds
WideLimits == {0, 1, 2}
\* logs that tell three breadcrumbs apart, one that is garbled
CrumbLogs == {<<LBrace, Key("level"), Str("info"), RBrace>>,
              <<LBrace, Key("level"), Str("error"), RBrace>>,
              <<LBrace, Key("level"), Str("info"),
                Key("lvl"), LBrace, Key("level"), Str("error"), RBrace, RBrace>>,
              <<Junk>>}

WriteCrumbLog == WriteOf(CrumbLogs)
WithBreadcrumbsWide == WithBreadcrumbsOf(WideLimits)

NextCrumbs ==
    \/ WriteCrumbLog
    \/ WithBreadcrumbsWide
    \/ WithClient
    \/ WithLogLevel

\* the writer under Writes and the calls that decide what a Write keeps
SpecCrumbs == Init /\ [][NextCrumbs]_vars

\* ------------------------------------------- the methods, step by step
\*
\* Two goroutines share the writer.  A step is one critical section of s.mu
\* or one access made outside it.  A section under RLock is a single read and
\* is one step, taken while nobody holds the lock; a section under Lock is
\* two steps, Lock and then body with Unlock, so that what other goroutines
\* do without the lock while it is held can be seen.

\* the logs the step-by-step Writes take: one that matches the error rules,
\* one that does not, one that is no json
StepLogs == {<<LBrace, Key("level"), Str("error"), RBrace>>,
             <<LBrace, Key("level"), Str("info"), RBrace>>,
             <<Junk>>}

\* the fields of SentryWriter that s.mu is there to guard
ConfigFields == {"client", "logLevels", "filterLogsFlag", "addBreadcrumbsFlag",
                 "breadcrumbsLimit", "levelFieldName"}

\* how goroutine g holds s.mu in a step outside any section of its own
Unlocked(g) == "none"
\* the access of one step
Access(g, fields, kind, held) == [g |-> g, fields |-> fields, kind |-> kind, held |-> held]
\* goroutine g goes on with its call at pc, with the locals changed to c
Goto(g, c) == calls' = [calls EXCEPT ![g] = c]
\* goroutine g returns from its call; r is the record of the call
Return(g, r) == /\ calls' = [calls EXCEPT ![g] = NoCall]
                /\ ret' = r

\* ---- Write

\* if s.client == nil { return 0, errors.New(...) }: read outside s.mu
WriteClientCheckOf(g, logs) ==
    \E log \in logs :
        /\ calls[g].pc = "idle"
        /\ access' = Access(g, {"client"}, "read", Unlocked(g))
        /\ IF client = NoClient
           THEN Return(g, WriteError(log, ErrNoClient, 0).ret)
           ELSE /\ Goto(g, [NoCall EXCEPT !.op = "Write", !.pc = "getScope", !.log = log])
                /\ UNCHANGED ret
        /\ UNCHANGED <<config, scope, mu>>

WriteClientCheck(g) == WriteClientCheckOf(g, StepLogs)

\* scope := s.getScope()
WriteGetScope(g) ==
    /\ calls[g].op = "Write" /\ calls[g].pc = "getScope"
    /\ Goto(g, [calls[g] EXCEPT !.pc = "shouldFilterLogs", !.sc = getScope])
    /\ access' = NoAccess
    /\ UNCHANGED <<config, scope, mu, ret>>

\* if s.shouldFilterLogs() { json.Unmarshal(log, &eventMap) ...
WriteShouldFilterLogs(g) ==
    /\ calls[g].op = "Write" /\ calls[g].pc = "shouldFilterLogs"
    /\ mu = NoHolder
    /\ access' = Access(g, {"filterLogsFlag"}, "read", "shared")
    /\ IF ~shouldFilterLogs
       THEN Goto(g, [calls[g] EXCEPT !.pc = "CaptureMessage"]) /\ UNCHANGED ret
       ELSE IF ~UnmarshalMap(calls[g].log).ok
       THEN Return(g, WriteError(calls[g].log, ErrUnmarshalLog, 1).ret)
       ELSE Goto(g, [calls[g] EXCEPT !.pc = "getLevelFieldName"]) /\ UNCHANGED ret
    /\ UNCHANGED <<config, scope, mu>>

\* json.Unmarshal(eventMap[s.getLevelFieldName()], &level); on an error the
\* name is read once more, for the message only
WriteGetLevelFieldName(g) ==
    /\ calls[g].op = "Write" /\ calls[g].pc = "getLevelFieldName"
    /\ mu = NoHolder
    /\ access' = Access(g, {"levelFieldName"}, "read", "shared")
    /\ LET level == UnmarshalString(MapGet(UnmarshalMap(calls[g].log).m, getLevelFieldName))
       IN IF ~level.ok
          THEN Return(g, WriteError(calls[g].log, ErrUnmarshalLevel, 2).ret)
          ELSE /\ Goto(g, [calls[g] EXCEPT !.pc = "findMatchingLogLevel", !.level = level.s])
               /\ UNCHANGED ret
    /\ UNCHANGED <<config, scope, mu>>

\* mutant: findMatchingLogLevel returns without RUnlock
WriteFindMatchingLogLevelKeepsLock(g) ==
    /\ calls[g].op = "Write" /\ calls[g].pc = "findMatchingLogLevel"
    /\ mu = NoHolder
    /\ mu' = g
    /\ access' = Access(g, {"logLevels"}, "read", "shared")
    /\ LET match == findMatchingLogLevel(calls[g].level)
       IN IF ~match.found
          THEN Goto(g, [calls[g] EXCEPT !.pc = "shouldAddBreadcrumb"])
          ELSE Goto(g, [calls[g] EXCEPT !.pc = "CaptureMessage",
                                        !.sc = SetLevel(@, match.logLevel.SentryLevel)])
    /\ UNCHANGED <<config, scope, ret>>
\* logLevel, found := s.findMatchingLogLevel(level); scope.SetLevel(...)
WriteFindMatchingLogLevel(g) ==
    /\ calls[g].op = "Write" /\ calls[g].pc = "findMatchingLogLevel"
    /\ mu = NoHolder
    /\ access' = Access(g, {"logLevels"}, "read", "shared")
    /\ LET match == findMatchingLogLevel(calls[g].level)
       IN IF ~match.found
          THEN Goto(g, [calls[g] EXCEPT !.pc = "shouldAddBreadcrumb"])
          ELSE Goto(g, [calls[g] EXCEPT !.pc = "CaptureMessage",
                                        !.sc = SetLevel(@, match.logLevel.SentryLevel)])
    /\ UNCHANGED <<config, scope, mu, ret>>

\* addBreadcrumb: if !s.shouldAddBreadcrumb() { return }, and the
\* breadcrumb's Timestamp: time.Now().UTC()
WriteShouldAddBreadcrumb(g) ==
    /\ calls[g].op = "Write" /\ calls[g].pc = "shouldAddBreadcrumb"
    /\ mu = NoHolder
    /\ access' = Access(g, {"addBreadcrumbsFlag"}, "read", "shared")
    /\ IF ~shouldAddBreadcrumb
       THEN Return(g, [Call("Write") EXCEPT !.log = calls[g].log, !.n = Len(calls[g].log),
                                            !.unmarshals = 2, !.lookups = 1])
       ELSE /\ Goto(g, [calls[g] EXCEPT !.pc = "getBreadcrumbsLimit", !.Timestamp = clock])
            /\ UNCHANGED ret
    /\ UNCHANGED <<config, scope, mu>>

\* addBreadcrumbToScope: the argument s.getBreadcrumbsLimit()
WriteGetBreadcrumbsLimit(g) ==
    /\ calls[g].op = "Write" /\ calls[g].pc = "getBreadcrumbsLimit"
    /\ mu = NoHolder
    /\ access' = Access(g, {"breadcrumbsLimit"}, "read", "shared")
    /\ Goto(g, [calls[g] EXCEPT !.pc = "AddBreadcrumb", !.limit = getBreadcrumbsLimit])
    /\ UNCHANGED <<config, scope, mu, ret>>

\* addBreadcrumbToScope: s.scope.AddBreadcrumb(breadcrumb, limit), and Write
\* returns len(log), nil
WriteAddBreadcrumb(g) ==
    /\ calls[g].op = "Write" /\ calls[g].pc = "AddBreadcrumb"
    /\ scope' = AddBreadcrumb(scope, BreadcrumbAt(calls[g].log, calls[g].Timestamp),
                              calls[g].limit)
    /\ access' = NoAccess
    /\ Return(g, [Call("Write") EXCEPT !.log = calls[g].log, !.n = Len(calls[g].log),
                                       !.unmarshals = 2, !.lookups = 1, !.added = 1])
    /\ UNCHANGED <<config, mu>>

\* mutant: the scope handed over is the shared one, not the clone
WriteCaptureMessageSharedScope(g) ==
    /\ calls[g].op = "Write" /\ calls[g].pc = "CaptureMessage"
    /\ access' = Access(g, {"client"}, "read", Unlocked(g))
    /\ IF client = NoClient
       THEN Return(g, [Call("Write") EXCEPT !.log = calls[g].log, !.panicked = TRUE])
       ELSE /\ Goto(g, [calls[g] EXCEPT !.pc = "clearBreadcrumbs",
                            !.captured = <<[client |-> client, message |-> calls[g].log,
                                            scope |-> SetLevel(scope, calls[g].sc.level)]>>])
            /\ UNCHANGED ret
    /\ UNCHANGED <<config, scope, mu>>
\* mutant: CaptureMessage is called twice
WriteCaptureMessageTwice(g) ==
    /\ calls[g].op = "Write" /\ calls[g].pc = "CaptureMessage"
    /\ access' = Access(g, {"client"}, "read", Unlocked(g))
    /\ IF client = NoClient
       THEN Return(g, [Call("Write") EXCEPT !.log = calls[g].log, !.panicked = TRUE])
       ELSE /\ Goto(g, [calls[g] EXCEPT !.pc = "clearBreadcrumbs",
                            !.captured = <<[client |-> client, message |-> calls[g].log,
                                            scope |-> calls[g].sc],
                                           [client |-> client, message |-> calls[g].log,
                                            scope |-> calls[g].sc]>>])
            /\ UNCHANGED ret
    /\ UNCHANGED <<config, scope, mu>>
\* s.client.CaptureMessage(string(log), nil, scope): s.client is read again,
\* outside s.mu; a method call on a nil interface panics
WriteCaptureMessage(g) ==
    /\ calls[g].op = "Write" /\ calls[g].pc = "CaptureMessage"
    /\ access' = Access(g, {"client"}, "read", Unlocked(g))
    /\ IF client = NoClient
       THEN Return(g, [Call("Write") EXCEPT !.log = calls[g].log, !.panicked = TRUE])
       ELSE /\ Goto(g, [calls[g] EXCEPT !.pc = "clearBreadcrumbs",
                            !.captured = <<[client |-> client, message |-> calls[g].log,
                                            scope |-> calls[g].sc]>>])
            /\ UNCHANGED ret
    /\ UNCHANGED <<config, scope, mu>>

\* mutant: only the breadcrumbs that were sent are removed
WriteClearBreadcrumbsSent(g) ==
    /\ calls[g].op = "Write" /\ calls[g].pc = "clearBreadcrumbs"
    /\ scope' = [scope EXCEPT !.breadcrumbs =
                     SelectSeq(@, LAMBDA b : \A i \in DOMAIN calls[g].sc.breadcrumbs :
                                                 calls[g].sc.breadcrumbs[i] # b)]
    /\ access' = NoAccess
    /\ Return(g, [Call("Write") EXCEPT !.log = calls[g].log, !.n = Len(calls[g].log),
                      !.captured = calls[g].captured,
                      !.unmarshals = IF calls[g].sc.level = NoLevel THEN 0 ELSE 2,
                      !.lookups = IF calls[g].sc.level = NoLevel THEN 0 ELSE 1])
    /\ UNCHANGED <<config, mu>>
\* s.clearBreadcrumbs(); return len(log), nil
WriteClearBreadcrumbs(g) ==
    /\ calls[g].op = "Write" /\ calls[g].pc = "clearBreadcrumbs"
    /\ scope' = ClearBreadcrumbs(scope)
    /\ access' = NoAccess
    /\ Return(g, [Call("Write") EXCEPT !.log = calls[g].log, !.n = Len(calls[g].log),
                      !.captured = calls[g].captured,
                      !.unmarshals = IF calls[g].sc.level = NoLevel THEN 0 ELSE 2,
                      !.lookups = IF calls[g].sc.level = NoLevel THEN 0 ELSE 1])
    /\ UNCHANGED <<config, mu>>

\* ---- Flush

\* return s.client.Flush(timeout): s.client is read outside s.mu
FlushStep(g) ==
    \E timeout \in Timeouts, returned \in BOOLEAN :
        /\ calls[g].pc = "idle"
        /\ access' = Access(g, {"client"}, "read", Unlocked(g))
        /\ Return(g, IF client = NoClient
                     THEN [Call("Flush") EXCEPT !.arg = <<timeout>>, !.panicked = TRUE]
                     ELSE [Call("Flush") EXCEPT !.arg = <<timeout>>,
                               !.result = flushResult(returned),
                               !.flushed = <<[client |-> client, timeout |-> timeout,
                                              returned |-> returned]>>])
        /\ UNCHANGED <<config, scope, mu>>

\* ---- the setters

\* s.mu.Lock() of a setter whose body is one section: the call begins
SetterLock(g, op, arg) ==
    /\ calls[g].pc = "idle"
    /\ mu = NoHolder
    /\ mu' = g
    /\ Goto(g, [NoCall EXCEPT !.op = op, !.pc = "locked", !.arg = <<arg>>])
    /\ access' = NoAccess
    /\ UNCHANGED <<config, scope, ret>>

WithClientLock(g) == \E c \in Clients \cup {NoClient} : SetterLock(g, "WithClient", c)
WithLevelFieldNameLock(g) == \E name \in FieldNames : SetterLock(g, "WithLevelFieldName", name)
WithBreadcrumbsLock(g) == \E limit \in Limits : SetterLock(g, "WithBreadcrumbs", limit)
\* WithLogLevel begins with addLogLevel, which takes the lock
AddLogLevelLock(g) ==
    \E logLevel \in LogLevels :
        /\ Len(logLevels) < MaxRules
        /\ SetterLock(g, "WithLogLevel", logLevel)

\* WithUserID: s.scope.SetUser(sentry.User{ID: userID}), under the scope's
\* own lock and not under s.mu
WithUserIDStep(g) ==
    \E userID \in UserIDs :
        /\ calls[g].pc = "idle"
        /\ scope' = SetUser(scope, userID)
        /\ access' = NoAccess
        /\ Return(g, [Call("WithUserID") EXCEPT !.arg = <<userID>>])
        /\ UNCHANGED <<config, mu>>

\* mutant: WithClient returns without Unlock
WithClientSetKeepsLock(g) ==
    /\ calls[g].op = "WithClient" /\ calls[g].pc = "locked" /\ mu = g
    /\ client' = calls[g].arg[1]
    /\ access' = Access(g, {"client"}, "write", "exclusive")
    /\ Return(g, [Call("WithClient") EXCEPT !.arg = calls[g].arg])
    /\ UNCHANGED <<scope, logLevels, filterLogsFlag, addBreadcrumbsFlag,
                   breadcrumbsLimit, levelFieldName, mu>>
\* s.client = client, with the deferred Unlock and the return
WithClientSet(g) ==
    /\ calls[g].op = "WithClient" /\ calls[g].pc = "locked" /\ mu = g
    /\ client' = calls[g].arg[1]
    /\ access' = Access(g, {"client"}, "write", "exclusive")
    /\ mu' = NoHolder
    /\ Return(g, [Call("WithClient") EXCEPT !.arg = calls[g].arg])
    /\ UNCHANGED <<scope, logLevels, filterLogsFlag, addBreadcrumbsFlag,
                   breadcrumbsLimit, levelFieldName>>

\* s.levelFieldName = name
WithLevelFieldNameSet(g) ==
    /\ calls[g].op = "WithLevelFieldName" /\ calls[g].pc = "locked" /\ mu = g
    /\ levelFieldName' = calls[g].arg[1]
    /\ access' = Access(g, {"levelFieldName"}, "write", "exclusive")
    /\ mu' = NoHolder
    /\ Return(g, [Call("WithLevelFieldName") EXCEPT !.arg = calls[g].arg])
    /\ UNCHANGED <<client, scope, logLevels, filterLogsFlag, addBreadcrumbsFlag,
                   breadcrumbsLimit>>

\* s.addBreadcrumbsFlag = true; s.breadcrumbsLimit = limit
WithBreadcrumbsSet(g) ==
    /\ calls[g].op = "WithBreadcrumbs" /\ calls[g].pc = "locked" /\ mu = g
    /\ addBreadcrumbsFlag' = TRUE
    /\ breadcrumbsLimit' = calls[g].arg[1]
    /\ access' = Access(g, {"addBreadcrumbsFlag", "breadcrumbsLimit"}, "write", "exclusive")
    /\ mu' = NoHolder
    /\ Return(g, [Call("WithBreadcrumbs") EXCEPT !.arg = calls[g].arg])
    /\ UNCHANGED <<client, scope, logLevels, filterLogsFlag, levelFieldName>>

\* addLogLevel: s.logLevels = append(s.logLevels, logLevel), Unlock; the
\* call goes on in WithLogLevel
AddLogLevelAppend(g) ==
    /\ calls[g].op = "WithLogLevel" /\ calls[g].pc = "locked" /\ mu = g
    /\ logLevels' = addLogLevel(logLevels, calls[g].arg[1])
    /\ access' = Access(g, {"logLevels"}, "write", "exclusive")
    /\ mu' = NoHolder
    /\ Goto(g, [calls[g] EXCEPT !.pc = "shouldFilterLogs"])
    /\ UNCHANGED <<client, scope, filterLogsFlag, addBreadcrumbsFlag,
                   breadcrumbsLimit, levelFieldName, ret>>

\* WithLogLevel: if !s.shouldFilterLogs() { ... }
WithLogLevelShouldFilterLogs(g) ==
    /\ calls[g].op = "WithLogLevel" /\ calls[g].pc = "shouldFilterLogs"
    /\ mu = NoHolder
    /\ access' = Access(g, {"filterLogsFlag"}, "read", "shared")
    /\ IF ~shouldFilterLogs
       THEN Goto(g, [calls[g] EXCEPT !.pc = "turnOnFilterLogsFlag"]) /\ UNCHANGED ret
       ELSE Return(g, [Call("WithLogLevel") EXCEPT !.arg = calls[g].arg])
    /\ UNCHANGED <<config, scope, mu>>

\* turnOnFilterLogsFlag: s.mu.Lock()
TurnOnFilterLogsFlagLock(g) ==
    /\ calls[g].op = "WithLogLevel" /\ calls[g].pc = "turnOnFilterLogsFlag"
    /\ mu = NoHolder
    /\ mu' = g
    /\ Goto(g, [calls[g] EXCEPT !.pc = "turnOnLocked"])
    /\ access' = NoAccess
    /\ UNCHANGED <<config, scope, ret>>

\* turnOnFilterLogsFlag: s.filterLogsFlag = true, Unlock; WithLogLevel returns
TurnOnFilterLogsFlagSet(g) ==
    /\ calls[g].op = "WithLogLevel" /\ calls[g].pc = "turnOnLocked" /\ mu = g
    /\ filterLogsFlag' = turnOnFilterLogsFlag(filterLogsFlag)
    /\ access' = Access(g, {"filterLogsFlag"}, "write", "exclusive")
    /\ mu' = NoHolder
    /\ Return(g, [Call("WithLogLevel") EXCEPT !.arg = calls[g].arg])
    /\ UNCHANGED <<client, scope, logLevels, addBreadcrumbsFlag,
                   breadcrumbsLimit, levelFieldName>>

\* time stands still and nobody keeps count
Unobserved == UNCHANGED <<clock, hist>>

NextSteps ==
    \/ \E g \in Loggers :
           \/ WriteClientCheck(g) /\ Unobserved
           \/ WriteGetScope(g) /\ Unobserved
           \/ WriteShouldFilterLogs(g) /\ Unobserved
           \/ WriteGetLevelFieldName(g) /\ Unobserved
           \/ WriteFindMatchingLogLevel(g) /\ Unobserved
           \/ WriteShouldAddBreadcrumb(g) /\ Unobserved
           \/ WriteGetBreadcrumbsLimit(g) /\ Unobserved
           \/ WriteAddBreadcrumb(g) /\ Unobserved
           \/ WriteCaptureMessage(g) /\ Unobserved
           \/ WriteClearBreadcrumbs(g) /\ Unobserved
           \/ FlushStep(g) /\ Unobserved
    \/ \E g \in Setters :
           \/ WithClientLock(g) /\ Unobserved
           \/ WithClientSet(g) /\ Unobserved
           \/ WithLevelFieldNameLock(g) /\ Unobserved
           \/ WithLevelFieldNameSet(g) /\ Unobserved
           \/ WithBreadcrumbsLock(g) /\ Unobserved
           \/ WithBreadcrumbsSet(g) /\ Unobserved
           \/ AddLogLevelLock(g) /\ Unobserved
           \/ AddLogLevelAppend(g) /\ Unobserved
           \/ WithLogLevelShouldFilterLogs(g) /\ Unobserved
           \/ TurnOnFilterLogsFlagLock(g) /\ Unobserved
           \/ TurnOnFilterLogsFlagSet(g) /\ Unobserved

\* the writer with the calls of two goroutines interleaved step by step
SpecSteps == Init /\ [][NextSteps]_vars

\* --------------------------------------------------- two goroutines writing

\* a log the error levels match and one they do not
WriteLogs == {<<LBrace, Key("level"), Str("error"), RBrace>>,
              <<LBrace, Key("level"), Str("info"), RBrace>>}

\* a Write begins; the caller counts it
WriteBegins(g) ==
    /\ hist.begun < MaxWrites
    /\ WriteClientCheckOf(g, WriteLogs)
    /\ hist' = [hist EXCEPT !.begun = @ + 1]
    /\ UNCHANGED clock

\* time.Now() in addBreadcrumb: the clock is read and moves on
WriteStampsBreadcrumb(g) ==
    /\ WriteShouldAddBreadcrumb(g)
    /\ clock' = clock + 1
    /\ UNCHANGED hist

\* scope.AddBreadcrumb, seen from outside
WriteAddsBreadcrumb(g) ==
    /\ WriteAddBreadcrumb(g)
    /\ hist' = [hist EXCEPT !.added = @ \cup {BreadcrumbAt(calls[g].log, calls[g].Timestamp)}]
    /\ UNCHANGED clock

\* CaptureMessage, seen from the client: mockClient appends the message
WriteCaptures(g) ==
    /\ WriteCaptureMessage(g)
    /\ hist' = [hist EXCEPT !.sent = @ \o calls'[g].captured]
    /\ UNCHANGED clock

\* the forward is complete and the Write returns; the clock moves on
WriteForwarded(g) ==
    /\ WriteClearBreadcrumbs(g)
    /\ hist' = [hist EXCEPT !.forwarded = Append(@, calls[g].log), !.cleared = clock]
    /\ clock' = clock + 1

\* the writer of the tests: New(LogLevel{"error", sentry.LevelError}), then
\* WithClient(c1) and WithBreadcrumbs(1), before any goroutine writes
InitWrites ==
    /\ client = "c1"
    /\ scope = NewScope
    /\ logLevels = <<LogLevel("error", LevelError)>>
    /\ filterLogsFlag = newFilterLogsFlag(logLevels)
    /\ addBreadcrumbsFlag = TRUE
    /\ breadcrumbsLimit = 1
    /\ levelFieldName = "level"
    /\ ret = [Call("WithBreadcrumbs") EXCEPT !.arg = <<1>>]
    /\ mu = NoHolder
    /\ calls = [g \in Procs |-> NoCall]
    /\ access = NoAccess
    /\ clock = 0
    /\ hist = NoHist

\* Writes of two goroutines step by step, next to WithUserID, which is one
\* call on the scope
NextWrites ==
    \/ \E g \in Procs :
           \/ WriteBegins(g)
           \/ WriteGetScope(g) /\ Unobserved
           \/ WriteShouldFilterLogs(g) /\ Unobserved
           \/ WriteGetLevelFieldName(g) /\ Unobserved
           \/ WriteFindMatchingLogLevel(g) /\ Unobserved
           \/ WriteStampsBreadcrumb(g)
           \/ WriteGetBreadcrumbsLimit(g) /\ Unobserved
           \/ WriteAddsBreadcrumb(g)
           \/ WriteCaptures(g)
           \/ WriteForwarded(g)
    \/ WithUserID

SpecWrites == InitWrites /\ [][NextWrites]_vars

\* ------------------------------------------------ every lock and every call

\* one log is enough to take every lock a Write takes
LockLogs == {<<LBrace, Key("level"), Str("error"), RBrace>>}

\* a step of the Write or the Flush of goroutine g
LoggerStep(g) ==
    \/ WriteClientCheckOf(g, LockLogs) /\ Unobserved
    \/ WriteGetScope(g) /\ Unobserved
    \/ WriteShouldFilterLogs(g) /\ Unobserved
    \/ WriteGetLevelFieldName(g) /\ Unobserved
    \/ WriteFindMatchingLogLevel(g) /\ Unobserved
    \/ WriteShouldAddBreadcrumb(g) /\ Unobserved
    \/ WriteGetBreadcrumbsLimit(g) /\ Unobserved
    \/ WriteAddBreadcrumb(g) /\ Unobserved
    \/ WriteCaptureMessage(g) /\ Unobserved
    \/ WriteClearBreadcrumbs(g) /\ Unobserved
    \/ FlushStep(g) /\ Unobserved

\* a step of the setter goroutine g calls
SetterStep(g) ==
    \/ WithClientLock(g) /\ Unobserved
    \/ WithClientSet(g) /\ Unobserved
    \/ WithLevelFieldNameLock(g) /\ Unobserved
    \/ WithLevelFieldNameSet(g) /\ Unobserved
    \/ WithBreadcrumbsLock(g) /\ Unobserved
    \/ WithBreadcrumbsSet(g) /\ Unobserved
    \/ WithUserIDStep(g) /\ Unobserved
    \/ AddLogLevelLock(g) /\ Unobserved
    \/ AddLogLevelAppend(g) /\ Unobserved
    \/ WithLogLevelShouldFilterLogs(g) /\ Unobserved
    \/ TurnOnFilterLogsFlagLock(g) /\ Unobserved
    \/ TurnOnFilterLogsFlagSet(g) /\ Unobserved

\* every method that locks s.mu or the scope: the setters next to a Write
\* or a Flush
NextLocks ==
    \/ \E g \in Loggers : LoggerStep(g)
    \/ \E g \in Setters : SetterStep(g)

\* the writer with every method, the setters called next to the logger
SpecLocks == Init /\ [][NextLocks]_vars

\* ------------------------------------------------- the claims' vocabulary

\* the last call was a Write
Wrote == ret.op = "Write"
\* the log is a json object (one of the well-formed object logs)
IsObject(log) == log \in ObjectLogs
\* the member list an object log was written from
MembersOf(log) == CHOOSE ms \in MemberLists : log = <<LBrace>> \o Concat(ms) \o <<RBrace>>
\* the values the top-level members called name hold in an object log
FieldValues(log, name) ==
    LET ms == MembersOf(log)
    IN {Tail(ms[i]) : i \in {j \in DOMAIN ms : ms[j][1] = Key(name)}}
IsString(v) == Len(v) = 1 /\ v[1].t = "string"
\* the field called name is present in the object log and holds the text s
FieldIsString(log, name, s) == IsObject(log) /\ FieldValues(log, name) = {<<Str(s)>>}
\* the field is absent from the object log, or holds only values that are no string
FieldMissingOrInvalid(log, name) ==
    IsObject(log) /\ \A v \in FieldValues(log, name) : ~IsString(v)
\* the field occurs more than once in the object log, with different values
FieldIsAmbiguous(log, name) == IsObject(log) /\ Cardinality(FieldValues(log, name)) > 1
\* the texts some configured rule matches
MatchingStrings == {logLevels[i].MatchingString : i \in DOMAIN logLevels}
\* the Write returned (len(log), nil)
Accepted(r) == r.n = Len(r.log) /\ r.err = NoError
\* the Write returned (0, error)
Rejected(r) == r.n = 0 /\ r.err # NoError

\* ---------------------------------------------------------------------- C1

\* C1: with a client set and filtering on, a Write of a json object whose
\* level field is a string some rule matches calls CaptureMessage exactly
\* once, with the whole input as the message and a scope whose level is the
\* SentryLevel of a rule with that MatchingString, and returns (len(log), nil).
C1_FilterMatch ==
    \A s \in MatchingStrings :
        (Wrote /\ client # NoClient /\ filterLogsFlag
               /\ FieldIsString(ret.log, levelFieldName, s))
        => /\ Len(ret.captured) = 1
           /\ ret.captured[1].message = ret.log
           /\ ret.captured[1].scope.level \in
                  {logLevels[i].SentryLevel :
                       i \in {j \in DOMAIN logLevels : logLevels[j].MatchingString = s}}
           /\ Accepted(ret)

C1_Witness ==
    /\ Wrote /\ client # NoClient /\ filterLogsFlag
    /\ FieldIsString(ret.log, levelFieldName, "error")
    /\ "error" \in MatchingStrings
    /\ Len(ret.captured) = 1
    /\ ret.captured[1].scope.level = LevelError

\* ---------------------------------------------------------------------- C2

\* C2: with a client set and filtering on, a Write of a json object whose
\* level field is a string no rule matches makes no CaptureMessage call and
\* returns (len(log), nil), never an error.
C2_Suppression ==
    \A s \in StringValues \ MatchingStrings :
        (Wrote /\ client # NoClient /\ filterLogsFlag
               /\ FieldIsString(ret.log, levelFieldName, s))
        => /\ ret.captured = <<>>
           /\ Accepted(ret)

C2_Witness ==
    /\ Wrote /\ client # NoClient /\ filterLogsFlag
    /\ FieldIsString(ret.log, levelFieldName, "info")
    /\ ret.captured = <<>>
    /\ ret.n = 4

\* ---------------------------------------------------------------------- C3

\* C3: on a writer with a client set and no rule ever added, Write(x) for
\* any x, json or not, calls CaptureMessage exactly once with x as the
\* message and a scope with no level set, and returns (len(x), nil).
C3_UnfilteredPassThrough ==
    (Wrote /\ client # NoClient /\ logLevels = <<>>)
    => /\ Len(ret.captured) = 1
       /\ ret.captured[1].message = ret.log
       /\ ret.captured[1].scope.level = NoLevel
       /\ Accepted(ret)

C3_Witness ==
    /\ Wrote /\ client # NoClient /\ logLevels = <<>>
    /\ ret.log = <<Junk, Junk>>
    /\ Len(ret.captured) = 1
    /\ ret.n = 2

\* ---------------------------------------------------------------------- C4

\* C4: with a client set and filtering on, a Write whose input is not a
\* json object returns (0, error), makes no CaptureMessage call, appends no
\* breadcrumb, and leaves the shared scope (breadcrumbs and user) as it was.
C4_MalformedInput ==
    [][(ret'.op = "Write" /\ client # NoClient /\ filterLogsFlag /\ ~IsObject(ret'.log))
       => /\ Rejected(ret')
          /\ ret'.captured = <<>>
          /\ ret'.added = 0
          /\ scope'.breadcrumbs = scope.breadcrumbs
          /\ scope'.user = scope.user]_vars

C4_Witness ==
    /\ Wrote /\ client # NoClient /\ filterLogsFlag /\ addBreadcrumbsFlag
    /\ ret.log = <<Junk>>
    /\ ret.err = ErrUnmarshalLog
    /\ scope.breadcrumbs # <<>>
    /\ scope.user = "u1"

\* ---------------------------------------------------------------------- C5

\* C5: with a client set and filtering on, a Write of a json object in which
\* the level field is absent, or present with a value that is not a string
\* (number, boolean, null, object, array), returns (0, error), makes no
\* CaptureMessage call, looks up no rule and appends no breadcrumb.
C5_MissingOrInvalidLevel ==
    (Wrote /\ client # NoClient /\ filterLogsFlag
           /\ FieldMissingOrInvalid(ret.log, levelFieldName))
    => /\ Rejected(ret)
       /\ ret.captured = <<>>
       /\ ret.lookups = 0
       /\ ret.added = 0

\* ---------------------------------------------------------------------- C6

\* C6: on a writer with no client every Write returns (0, error), whatever
\* the input and the configuration; the check comes before any parsing, so
\* nothing is decoded, looked up, forwarded or appended and the writer's
\* state does not change.
C6_NoClientGuard ==
    [][(ret'.op = "Write" /\ client = NoClient)
       => /\ Rejected(ret')
          /\ ret'.captured = <<>>
          /\ ret'.unmarshals = 0
          /\ ret'.lookups = 0
          /\ ret'.added = 0
          /\ scope' = scope
          /\ config' = config]_vars

C6_Witness ==
    /\ Wrote /\ client = NoClient
    /\ ret.err = ErrNoClient
    /\ filterLogsFlag /\ addBreadcrumbsFlag
    /\ IsObject(ret.log)

\* ---------------------------------------------------------------------- C7

\* C7: a writer starts unfiltered iff New was given no rules; the flag turns
\* on only in WithLogLevel and, once on, stays on through every operation;
\* with the flag on, every Write of an input that is not json is rejected.
C7_MonotonicFiltering ==
    [][/\ (ret.op = "New" => (filterLogsFlag <=> ret.arg # <<>>))
       /\ (filterLogsFlag => filterLogsFlag')
       /\ ((~filterLogsFlag /\ filterLogsFlag') => ret'.op = "WithLogLevel")
       /\ (ret'.op = "WithLogLevel" => filterLogsFlag')
       /\ ((ret'.op = "Write" /\ filterLogsFlag /\ ~IsObject(ret'.log)) => Rejected(ret'))]_vars

C7_Witness ==
    /\ Wrote /\ filterLogsFlag /\ client # NoClient
    /\ ret.log = <<Junk, Junk>>
    /\ Rejected(ret)
    /\ Len(logLevels) = 1

\* ---------------------------------------------------------------------- C8

\* the first rule of the list whose MatchingString is s
FirstRule(levels, s) ==
    levels[CHOOSE i \in DOMAIN levels :
               /\ levels[i].MatchingString = s
               /\ \A j \in 1..(i - 1) : levels[j].MatchingString # s]

\* C8: the rule list is New's arguments in order followed by the WithLogLevel
\* rules in call order, and nothing else changes it; a matching record is
\* tagged with the SentryLevel of the earliest rule with its MatchingString.
C8_FirstMatchWins ==
    [][/\ (ret.op = "New" => logLevels = ret.arg)
       /\ (ret'.op = "WithLogLevel" => logLevels' = logLevels \o ret'.arg)
       /\ (ret'.op # "WithLogLevel" => logLevels' = logLevels)
       /\ \A s \in MatchingStrings :
              (ret'.op = "Write" /\ client # NoClient /\ filterLogsFlag
                   /\ FieldIsString(ret'.log, levelFieldName, s))
              => /\ Len(ret'.captured) = 1
                 /\ ret'.captured[1].scope.level = FirstRule(logLevels, s).SentryLevel]_vars

C8_Witness ==
    /\ Wrote /\ client # NoClient /\ filterLogsFlag
    /\ logLevels = <<LogLevel("error", LevelFatal), LogLevel("error", LevelError)>>
    /\ FieldIsString(ret.log, levelFieldName, "error")
    /\ Len(ret.captured) = 1
    /\ ret.captured[1].scope.level = LevelFatal

\* ---------------------------------------------------------------------- C9

\* C9: right after every Write that called CaptureMessage, filtered or not,
\* the shared breadcrumb history is empty and the shared user id is the one
\* from before the Write.
C9_ClearOnForward ==
    [][(ret'.op = "Write" /\ ret'.captured # <<>>)
       => /\ scope'.breadcrumbs = <<>>
          /\ scope'.user = scope.user]_vars

C9_Witness ==
    /\ Wrote /\ Len(ret.captured) = 1
    /\ ret.captured[1].scope.breadcrumbs # <<>>
    /\ scope.breadcrumbs = <<>>
    /\ scope.user = "u1"

\* --------------------------------------------------------------------- C10

\* C10: a Write appends a breadcrumb iff the client is set, filtering is on,
\* the record is a json object whose level field is a string, no rule
\* matches it and breadcrumbs are enabled; it then appends exactly one.
\* (Records that repeat the level field with different values are left out:
\* which value is "the" level field is not said.)
C10_BreadcrumbAppendCondition ==
    (Wrote /\ ~FieldIsAmbiguous(ret.log, levelFieldName)) =>
        /\ ret.added \in {0, 1}
        /\ ret.added = 1 <=>
              /\ client # NoClient
              /\ filterLogsFlag
              /\ addBreadcrumbsFlag
              /\ \E s \in StringValues \ MatchingStrings :
                     FieldIsString(ret.log, levelFieldName, s)

\* --------------------------------------------------------------------- C12

\* C12: whatever the input and the state, Write returns (len(input), nil) or
\* (0, error): never a count in between, never a count with an error, never
\* (0, nil) for a non-empty input.
C12_ReturnShape ==
    Wrote =>
        /\ ~ret.panicked
        /\ \/ (ret.n = Len(ret.log) /\ ret.err = NoError)
           \/ (ret.n = 0 /\ ret.err # NoError)

C12_Witness ==
    /\ Wrote /\ client # NoClient /\ filterLogsFlag
    /\ ret.captured = <<>>
    /\ ret.err = NoError
    /\ ret.n = 4

\* --------------------------------------------------------------------- C13

\* C13: in every state another goroutine can observe, the states between
\* the steps of a WithLogLevel call included, the filter flag is on iff the
\* list of log levels is not empty.
C13_FlagMatchesRules == filterLogsFlag <=> logLevels # <<>>

\* --------------------------------------------------------------------- C14

ClientSetters == {"WithClient", "SetDSN", "SetClientOptions"}

\* C14: WithClient(c) makes c the client at any point, nothing but the
\* client setters changes it, and every later Write and Flush calls the
\* client set last and no other.
C14_ClientReplacement ==
    [][/\ (ret'.op = "WithClient" => client' = ret'.arg[1])
       /\ (ret'.op \notin ClientSetters => client' = client)
       /\ (ret'.op \in {"Write", "Flush"} =>
              /\ \A i \in DOMAIN ret'.captured : ret'.captured[i].client = client
              /\ \A i \in DOMAIN ret'.flushed : ret'.flushed[i].client = client)]_vars

C14_Witness ==
    /\ Wrote /\ client = "c1"
    /\ Len(ret.captured) = 1
    /\ ret.captured[1].client = "c1"
    /\ ret.captured[1].scope.breadcrumbs # <<>>

\* --------------------------------------------------------------------- C15

\* C15: WithUserID(u) sets the shared user id to u, no other operation
\* changes it (forwarding, suppression, errors and clearing included), and
\* every forwarding Write hands the client a scope with the current user id.
C15_UserIdentity ==
    [][/\ (ret'.op = "WithUserID" => scope'.user = ret'.arg[1])
       /\ (ret'.op # "WithUserID" => scope'.user = scope.user)
       /\ ((ret'.op = "Write" /\ ret'.captured # <<>>)
              => ret'.captured[1].scope.user = scope.user)]_vars

C15_Witness ==
    /\ Wrote /\ Len(ret.captured) = 1
    /\ ret.captured[1].scope.user = "u1"
    /\ ret.captured[1].scope.breadcrumbs # <<>>
    /\ scope.user = "u1"

\* --------------------------------------------------------------------- C16

\* C16: the field name is "level" after New and changes only in
\* WithLevelFieldName(n), which forwards nothing and leaves the scope alone;
\* a later Write reads the level from the current field name only: a record
\* whose field of that name holds a matching string is forwarded, a record
\* without a field of that name is rejected, whatever its other fields hold.
C16_LevelFieldName ==
    [][/\ (ret.op = "New" => levelFieldName = "level")
       /\ (ret'.op = "WithLevelFieldName" =>
              /\ levelFieldName' = ret'.arg[1]
              /\ ret'.captured = <<>>
              /\ scope' = scope)
       /\ (ret'.op # "WithLevelFieldName" => levelFieldName' = levelFieldName)
       /\ ((ret'.op = "Write" /\ client # NoClient /\ filterLogsFlag) =>
              /\ \A s \in MatchingStrings :
                     FieldIsString(ret'.log, levelFieldName, s)
                     => (Len(ret'.captured) = 1 /\ Accepted(ret'))
              /\ (IsObject(ret'.log) /\ FieldValues(ret'.log, levelFieldName) = {})
                     => (ret'.captured = <<>> /\ Rejected(ret')))]_vars

C16_Witness ==
    /\ Wrote /\ client # NoClient /\ filterLogsFlag
    /\ levelFieldName = "lvl"
    /\ "error" \in MatchingStrings
    /\ FieldIsString(ret.log, "level", "error")
    /\ FieldValues(ret.log, "lvl") = {}
    /\ ret.err = ErrUnmarshalLevel

\* --------------------------------------------------------------------- C17

\* C17: with a client set, Flush(timeout) calls that client's Flush exactly
\* once with the same timeout, returns the boolean the client returned,
\* makes no CaptureMessage call and leaves the writer and the scope as
\* they were.
C17_FlushPassThrough ==
    [][(ret'.op = "Flush" /\ client # NoClient)
       => /\ Len(ret'.flushed) = 1
          /\ ret'.flushed[1].client = client
          /\ ret'.flushed[1].timeout = ret'.arg[1]
          /\ ret'.result = ret'.flushed[1].returned
          /\ ret'.captured = <<>>
          /\ ~ret'.panicked
          /\ config' = config
          /\ scope' = scope]_vars

C17_Witness ==
    /\ ret.op = "Flush" /\ client = "c1"
    /\ Len(ret.flushed) = 1
    /\ ret.flushed[1].timeout = 2
    /\ ~ret.result
    /\ scope.breadcrumbs # <<>>

\* --------------------------------------------------------------------- C11

\* the last n elements of a sequence
LastN(seq, n) == IF Len(seq) <= n THEN seq ELSE SubSeq(seq, Len(seq) - n + 1, Len(seq))
\* the Write kept the log back: nothing sent, no error
Suppressed(r) == r.op = "Write" /\ r.captured = <<>> /\ r.err = NoError

\* C11: with Writes made one at a time, the history grows by the breadcrumb
\* of each suppressed record, in write order, cut to the most recent
\* 'capacity' of them; a record suppressed while breadcrumbs are off leaves
\* no breadcrumb; a forward hands the client exactly that history and starts
\* it anew; nothing else touches it.
C11_BreadcrumbsCarried ==
    [][/\ (Suppressed(ret') /\ addBreadcrumbsFlag) =>
              scope'.breadcrumbs =
                  LastN(Append(scope.breadcrumbs, Breadcrumb(ret'.log)), breadcrumbsLimit)
       /\ (Suppressed(ret') /\ ~addBreadcrumbsFlag) => scope'.breadcrumbs = <<>>
       /\ (ret'.op = "Write" /\ ret'.captured # <<>>) =>
              /\ ret'.captured[1].scope.breadcrumbs = scope.breadcrumbs
              /\ scope'.breadcrumbs = <<>>
       /\ (ret'.op = "Write" /\ ret'.err # NoError) => scope'.breadcrumbs = scope.breadcrumbs
       /\ ret'.op # "Write" => scope'.breadcrumbs = scope.breadcrumbs]_vars

\* --------------------------------------------------------------------- C18

\* C18: every append leaves at most 'limit in force' breadcrumbs, the one
\* just appended last (when the limit leaves room for one), and what is
\* evicted is the oldest: the rest is the end of the old history, in order.
C18_BoundedHistory ==
    [][(ret'.op = "Write" /\ ret'.added = 1) =>
          /\ Len(scope'.breadcrumbs) <= breadcrumbsLimit
          /\ breadcrumbsLimit > 0 =>
                 /\ scope'.breadcrumbs # <<>>
                 /\ scope'.breadcrumbs[Len(scope'.breadcrumbs)] = Breadcrumb(ret'.log)
                 /\ SubSeq(scope'.breadcrumbs, 1, Len(scope'.breadcrumbs) - 1)
                       = LastN(scope.breadcrumbs, Len(scope'.breadcrumbs) - 1)]_vars

\* --------------------------------------------------------------------- C19

\* C19: while the limit is 0, every suppressed Write returns (len(log), nil)
\* without a panic and leaves the history empty, whatever the history held
\* before.
C19_CapacityZero ==
    [][(ret'.op = "Write" /\ ret'.added = 1 /\ breadcrumbsLimit = 0) =>
          /\ Accepted(ret') /\ ~ret'.panicked
          /\ ret'.captured = <<>>
          /\ scope'.breadcrumbs = <<>>]_vars

C19_Witness ==
    /\ Wrote /\ ret.added = 1
    /\ addBreadcrumbsFlag /\ breadcrumbsLimit = 0
    /\ ret.log = <<LBrace, Key("level"), Str("error"), RBrace>>
    /\ ret.n = 4 /\ ret.err = NoError
    /\ scope.breadcrumbs = <<>>

\* --------------------------------------------------------------------- C20

\* C20: every read of a configuration field is made with s.mu held shared
\* and every write with s.mu held exclusive; and no step reads the client
\* without the lock while a WithClient call holds the lock to write it.
C20_LockDiscipline ==
    [][/\ (access'.fields \cap ConfigFields # {} /\ access'.kind = "read")
              => access'.held = "shared"
       /\ (access'.fields \cap ConfigFields # {} /\ access'.kind = "write")
              => access'.held = "exclusive"
       /\ ("client" \in access'.fields /\ access'.kind = "read" /\ mu # NoHolder)
              => calls[mu].op # "WithClient"]_vars

\* --------------------------------------------------------------------- C28

\* C28: Flush on a writer without a client does not crash: it returns a
\* boolean and calls no client.
C28_FlushWithoutClient ==
    [][(ret'.op = "Flush" /\ client = NoClient)
          => (~ret'.panicked /\ ret'.result \in BOOLEAN /\ ret'.flushed = <<>>)]_vars

\* --------------------------------------------------------------------- C21

\* goroutine g is about to call, or has just called, the client for a Write
AtClient(g) == calls[g].op = "Write" /\ calls[g].pc \in {"CaptureMessage", "clearBreadcrumbs"}

\* C21: a goroutine that calls the client's CaptureMessage or Flush does not
\* hold s.mu when it does (nor is it inside a method of the scope, each of
\* which is over before the next step), so a setter can take the lock at
\* that very moment.
C21_NoLockAcrossClient ==
    [][/\ \A g \in Procs :
            /\ AtClient(g) => mu # g
            /\ (calls[g].pc = "CaptureMessage" /\ calls'[g].pc # "CaptureMessage") => mu' # g
       /\ (ret' # ret /\ ret'.op = "Flush") => (mu \notin Loggers /\ mu' = mu)
       /\ \A g \in Loggers, h \in Setters :
            (AtClient(g) /\ calls[h].pc = "idle" /\ mu = NoHolder)
                => ENABLED WithClientLock(h)]_vars

C21_Witness ==
    /\ calls["g2"].op = "Write" /\ calls["g2"].pc = "clearBreadcrumbs"
    /\ Len(calls["g2"].captured) = 1
    /\ mu = "g1" /\ calls["g1"].op = "WithClient"

\* --------------------------------------------------------------------- C26

\* the Write of g has taken the filtering branch
Filtering(g) ==
    /\ calls[g].op = "Write"
    /\ calls[g].pc \in {"getLevelFieldName", "findMatchingLogLevel", "shouldAddBreadcrumb",
                        "getBreadcrumbsLimit", "AddBreadcrumb"}
\* goroutine g is in WithLogLevel with its log level appended and the flag
\* not yet seen to
Appended(g) ==
    /\ calls[g].op = "WithLogLevel"
    /\ calls[g].pc \in {"shouldFilterLogs", "turnOnFilterLogsFlag", "turnOnLocked"}

\* C26: no Write is in the filtering branch with an empty list of log
\* levels: the flag is on only when the list is not empty; and while the
\* flag is off (Writes do not filter, as before any log level) no
\* WithLogLevel has returned: the list is empty or holds just the log level
\* of the call under way.
C26_RuleAdditionAtomic ==
    /\ \A g \in Procs : Filtering(g) => (filterLogsFlag /\ logLevels # <<>>)
    /\ filterLogsFlag => logLevels # <<>>
    /\ ~filterLogsFlag =>
          \/ logLevels = <<>>
          \/ \E g \in Procs : Appended(g) /\ logLevels = <<calls[g].arg[1]>>

C26_Witness ==
    /\ calls["g1"].op = "WithLogLevel" /\ calls["g1"].pc = "turnOnFilterLogsFlag"
    /\ logLevels = <<LogLevel("error", LevelError)>>
    /\ ~filterLogsFlag
    /\ calls["g2"].op = "Write" /\ calls["g2"].pc = "CaptureMessage"
    /\ calls["g2"].log = <<LBrace, Key("level"), Str("info"), RBrace>>

\* --------------------------------------------------------------------- C27

\* where a goroutine is between Lock and Unlock of s.mu
LockedPcs == {"locked", "turnOnLocked"}
\* how far a call at pc is from its return, at most
Rank(pc) ==
    CASE pc = "idle" -> 0
      [] pc = "clearBreadcrumbs" -> 1
      [] pc = "turnOnLocked" -> 1
      [] pc = "CaptureMessage" -> 2
      [] pc = "turnOnFilterLogsFlag" -> 2
      [] pc = "AddBreadcrumb" -> 3
      [] pc = "getBreadcrumbsLimit" -> 4
      [] pc = "shouldAddBreadcrumb" -> 5
      [] pc = "findMatchingLogLevel" -> 6
      [] pc = "getLevelFieldName" -> 7
      [] pc = "shouldFilterLogs" -> 8
      [] pc = "getScope" -> 9
      [] pc = "locked" -> 9

\* no call is stuck: its goroutine can take a step, or the goroutine that
\* holds s.mu can
NotStuck ==
    /\ \A g \in Loggers :
          calls[g].pc # "idle" =>
              \/ ENABLED LoggerStep(g)
              \/ mu \in Setters /\ ENABLED SetterStep(mu)
    /\ \A g \in Setters :
          calls[g].pc # "idle" =>
              \/ ENABLED SetterStep(g)
              \/ mu \in Loggers /\ ENABLED LoggerStep(mu)

\* C27: every call returns if its goroutine keeps being scheduled: no call
\* is ever stuck, every step of a call brings it nearer to its return, s.mu
\* is held only between a Lock and the Unlock that follows it (so never
\* locked again by its holder), and no step works on the shared scope for a
\* goroutine that holds s.mu.
C27_DeadlockFreedom ==
    /\ [](/\ NotStuck
          /\ mu # NoHolder => calls[mu].pc \in LockedPcs
          /\ \A g \in Procs : calls[g].pc \in LockedPcs => mu = g)
    /\ [][/\ \A g \in Procs :
               (calls[g].pc # "idle" /\ calls'[g] # calls[g])
                   => Rank(calls'[g].pc) < Rank(calls[g].pc)
          /\ \A g \in Procs :
               (calls[g].pc = "getScope" /\ calls'[g] # calls[g]) => mu # g
          /\ scope' # scope => (mu = NoHolder \/ calls'[mu] = calls[mu])]_vars

C27_Witness ==
    /\ mu = "g1" /\ calls["g1"].op = "WithLogLevel" /\ calls["g1"].pc = "turnOnLocked"
    /\ calls["g2"].op = "Write" /\ calls["g2"].pc = "shouldFilterLogs"
    /\ scope.user = "u1"

\* --------------------------------------------------------------------- C22

\* the Write of g holds a clone of the scope
HasClone(g) == calls[g].op = "Write" /\ calls[g].pc \notin {"idle", "getScope"}

\* C22: what a Write hands to CaptureMessage is the clone it took in getScope:
\* the clone is the shared scope of that moment, nothing done to the shared
\* scope afterwards (breadcrumbs added or cleared, user id set, by this or
\* the other goroutine) changes its breadcrumbs or user id, what the client
\* was given never changes, and the level set on the clone never shows on
\* the shared scope.
C22_SnapshotIsolation ==
    [][/\ \A g \in Procs :
            /\ (calls[g].pc = "getScope" /\ calls'[g].pc # "getScope")
                   => calls'[g].sc = Clone(scope)
            /\ (HasClone(g) /\ calls'[g].op = "Write")
                   => /\ calls'[g].sc.breadcrumbs = calls[g].sc.breadcrumbs
                      /\ calls'[g].sc.user = calls[g].sc.user
            /\ (calls[g].pc = "CaptureMessage" /\ calls'[g].pc = "clearBreadcrumbs")
                   => /\ Len(calls'[g].captured) = 1
                      /\ calls'[g].captured[1].scope = calls[g].sc
       /\ \A i \in DOMAIN hist.sent : hist'.sent[i] = hist.sent[i]
       /\ scope.level = NoLevel /\ scope'.level = NoLevel]_vars

C22_Witness ==
    /\ calls["g1"].op = "Write" /\ calls["g1"].pc = "clearBreadcrumbs"
    /\ Len(hist.sent) = 1
    /\ hist.sent[1].scope.breadcrumbs = <<>>
    /\ hist.sent[1].scope.user = ""
    /\ hist.sent[1].scope.level = LevelError
    /\ scope.breadcrumbs # <<>>
    /\ scope.user = "u1"

\* --------------------------------------------------------------------- C23

\* C23: the clear of a forwarding Write empties the shared history whatever
\* the history holds by then, also breadcrumbs that came after its clone was
\* taken, and that Write and the Write that appended return (len(log), nil);
\* the witness is the lost breadcrumb: two Writes, both returned, one
\* breadcrumb appended, and it is neither in the history nor in what the
\* client was given.
C23_BreadcrumbLossRace ==
    [][\A g \in Procs :
          /\ (calls[g].pc = "clearBreadcrumbs" /\ calls'[g].pc = "idle")
                => /\ scope'.breadcrumbs = <<>>
                   /\ Accepted(ret') /\ ret'.captured = calls[g].captured
          /\ (calls[g].pc = "AddBreadcrumb" /\ calls'[g].pc = "idle")
                => /\ Accepted(ret') /\ ret'.captured = <<>>
                   /\ hist'.sent = hist.sent]_vars

C23_Witness ==
    /\ \A g \in Procs : calls[g].pc = "idle"
    /\ hist.begun = 2
    /\ Len(hist.forwarded) = 1
    /\ Len(hist.sent) = 1
    /\ hist.sent[1].scope.breadcrumbs = <<>>
    /\ Cardinality(hist.added) = 1
    /\ breadcrumbsLimit = 1
    /\ scope.breadcrumbs = <<>>

\* --------------------------------------------------------------------- C24

\* C24: every breadcrumb in the shared history has a Timestamp later than
\* the moment the last forward (CaptureMessage and clear) was complete.
C24_NoStaleBreadcrumbs ==
    \A i \in DOMAIN scope.breadcrumbs : scope.breadcrumbs[i].Timestamp > hist.cleared

\* --------------------------------------------------------------------- C25

\* how often x is in seq
Count(seq, x) == Cardinality({i \in DOMAIN seq : seq[i] = x})
\* the Writes that have called CaptureMessage and not yet returned
Sending(log) == {g \in Procs : calls[g].pc = "clearBreadcrumbs" /\ calls[g].log = log}

\* C25: a Write calls CaptureMessage at most once, and for every log the
\* client has been given it as often as Writes of it have returned after
\* sending or are about to: no message twice, none for a Write that was
\* suppressed, none missing.
C25_OneForwardPerWrite ==
    /\ \A g \in Procs : Len(calls[g].captured) <= 1
    /\ Wrote => Len(ret.captured) <= 1
    /\ \A log \in WriteLogs :
          Count([i \in DOMAIN hist.sent |-> hist.sent[i].message], log)
              = Count(hist.forwarded, log) + Cardinality(Sending(log))
    /\ \A i \in DOMAIN hist.sent : hist.sent[i].message \in WriteLogs
    /\ Len(hist.forwarded) + Cardinality(hist.added) <= hist.begun

C25_Witness ==
    /\ \A g \in Procs : calls[g].pc = "idle"
    /\ hist.begun = 3
    /\ Len(hist.sent) = 2
    /\ Len(hist.forwarded) = 2
    /\ Cardinality(hist.added) = 1

====
